---- MODULE Spec2Model ----
(***************************************************************************)
(* Low-stock alerts endpoint of task1/index.py: the handler                *)
(* low_stock_alerts, the threshold policy, the two sales windows and the   *)
(* stock-out estimate, over a read-only snapshot of the database.          *)
(*                                                                         *)
(* Time is counted in whole days.  Python floats are IEEE-754 doubles; the *)
(* two float operations of the handler (total / SALES_AVG_DAYS and         *)
(* current_stock / avg_daily_sales) are modelled bit-exactly, with the     *)
(* 53-bit significand held as a multi-limb natural number.                 *)
(***************************************************************************)
EXTENDS Integers, Sequences, FiniteSets, TLC

\* Python's None and SQL's None.  A value that may be None is None or Some(v).
None == <<>>
Some(v) == <<v>>

(***************************************************************************)
(* Natural numbers of arbitrary size: little-endian sequences of limbs in  *)
(* base 2^15, without leading zero limbs (zero is the empty sequence).     *)
(***************************************************************************)
LimbBits == 15
Base == 2^LimbBits

RECURSIVE BNFromNat(_)
BNFromNat(n) == IF n = 0 THEN <<>> ELSE <<n % Base>> \o BNFromNat(n \div Base)

RECURSIVE BNToNat(_)
BNToNat(b) == IF b = <<>> THEN 0 ELSE Head(b) + Base * BNToNat(Tail(b))

RECURSIVE BNNorm(_)
BNNorm(b) ==
    IF b = <<>> THEN <<>>
    ELSE IF b[Len(b)] = 0 THEN BNNorm(SubSeq(b, 1, Len(b) - 1))
    ELSE b

Limb(b, i) == IF i <= Len(b) THEN b[i] ELSE 0

RECURSIVE BNCmpFrom(_, _, _)
BNCmpFrom(a, b, i) ==
    IF i = 0 THEN 0
    ELSE IF a[i] > b[i] THEN 1
    ELSE IF a[i] < b[i] THEN -1
    ELSE BNCmpFrom(a, b, i - 1)

\* -1, 0 or 1 as a < b, a = b, a > b
BNCmp(a, b) ==
    IF Len(a) > Len(b) THEN 1
    ELSE IF Len(a) < Len(b) THEN -1
    ELSE BNCmpFrom(a, b, Len(a))

RECURSIVE BNAddFrom(_, _, _, _)
BNAddFrom(a, b, i, carry) ==
    IF i > Len(a) /\ i > Len(b)
    THEN (IF carry = 0 THEN <<>> ELSE <<carry>>)
    ELSE LET s == Limb(a, i) + Limb(b, i) + carry
         IN <<s % Base>> \o BNAddFrom(a, b, i + 1, s \div Base)

BNAdd(a, b) == BNAddFrom(a, b, 1, 0)

RECURSIVE BNSubFrom(_, _, _, _)
BNSubFrom(a, b, i, borrow) ==
    IF i > Len(a) THEN <<>>
    ELSE LET s == a[i] - Limb(b, i) - borrow
         IN IF s < 0 THEN <<s + Base>> \o BNSubFrom(a, b, i + 1, 1)
            ELSE <<s>> \o BNSubFrom(a, b, i + 1, 0)

\* a - b, for a >= b
BNSub(a, b) == BNNorm(BNSubFrom(a, b, 1, 0))

RECURSIVE BNMulFrom(_, _, _, _)
BNMulFrom(a, k, i, carry) ==
    IF i > Len(a) THEN BNFromNat(carry)
    ELSE LET s == a[i] * k + carry
         IN <<s % Base>> \o BNMulFrom(a, k, i + 1, s \div Base)

\* a * k, for 0 <= k < 2^16
BNMulSmall(a, k) == BNNorm(BNMulFrom(a, k, 1, 0))

RECURSIVE Zeros(_)
Zeros(n) == IF n = 0 THEN <<>> ELSE <<0>> \o Zeros(n - 1)

\* a * 2^s
BNShl(a, s) ==
    IF a = <<>> THEN <<>>
    ELSE Zeros(s \div LimbBits) \o BNMulSmall(a, 2^(s % LimbBits))

RECURSIVE BNDivSmallFrom(_, _, _, _)
BNDivSmallFrom(a, k, i, rem) ==
    IF i = 0 THEN <<>>
    ELSE LET cur == rem * Base + a[i]
         IN BNDivSmallFrom(a, k, i - 1, cur % k) \o <<cur \div k>>

\* a \div 2^s
BNShr(a, s) ==
    IF s \div LimbBits >= Len(a) THEN <<>>
    ELSE LET hi == SubSeq(a, (s \div LimbBits) + 1, Len(a))
         IN BNNorm(BNDivSmallFrom(hi, 2^(s % LimbBits), Len(hi), 0))

RECURSIVE NatBitLen(_)
NatBitLen(n) == IF n = 0 THEN 0 ELSE 1 + NatBitLen(n \div 2)

BNBitLen(a) == IF a = <<>> THEN 0 ELSE LimbBits * (Len(a) - 1) + NatBitLen(a[Len(a)])

BNIsOdd(a) == a # <<>> /\ a[1] % 2 = 1

\* The largest digit k < 2^15 with k * d <= cur, for cur < d * 2^15 and a divisor
\* whose top limb is at least 2^14: the estimate from the leading limbs is at most
\* two too large (Knuth, TAOCP 4.3.1, Theorem B).
BNDigit(cur, d) ==
    LET top == Limb(cur, Len(d) + 1) * Base + Limb(cur, Len(d))
        est == top \div d[Len(d)]
        qhat == IF est > Base - 1 THEN Base - 1 ELSE est
    IN IF BNCmp(BNMulSmall(d, qhat), cur) <= 0 THEN qhat
       ELSE IF BNCmp(BNMulSmall(d, qhat - 1), cur) <= 0 THEN qhat - 1
       ELSE qhat - 2

\* Long division in base 2^15 over limbs i, i-1, ..., 1 of n, with the running
\* remainder rem < d: the quotient limbs (little-endian) and the final remainder.
RECURSIVE BNDivFrom(_, _, _, _)
BNDivFrom(n, d, i, rem) ==
    IF i = 0 THEN [q |-> <<>>, r |-> rem]
    ELSE LET cur == BNNorm(<<n[i]>> \o rem)
             k == BNDigit(cur, d)
             rest == BNDivFrom(n, d, i - 1, BNSub(cur, BNMulSmall(d, k)))
         IN [q |-> rest.q \o <<k>>, r |-> rest.r]

\* n \div d and n % d, for a divisor whose top limb is at least 2^14
BNDivMod(n, d) ==
    LET qr == BNDivFrom(n, d, Len(n), <<>>)
    IN [q |-> BNNorm(qr.q), r |-> qr.r]

(***************************************************************************)
(* Python floats.  A float that is not zero is [m, e] standing for m * 2^e *)
(* with 2^52 <= m < 2^53; zero is FZero.  Only non-negative values occur   *)
(* (sums of sale quantities, stock levels), and all of them are far from   *)
(* the overflow and subnormal ranges.                                      *)
(***************************************************************************)
MantissaBits == 53

FZero == [m |-> <<>>, e |-> 0]

FIsPositive(x) == x.m # <<>>

\* The quotient n / d of two positive naturals, rounded to the nearest float,
\* ties to even (the rounding of int / int and of float / float in CPython).
FDivPos(n, d) ==
    LET e0 == BNBitLen(n) - BNBitLen(d) - MantissaBits
        n0 == IF e0 < 0 THEN BNShl(n, -e0) ELSE n
        d0 == IF e0 > 0 THEN BNShl(d, e0) ELSE d
        \* n0/d0 lies in (2^52, 2^54): one more halving may be needed
        big == BNCmp(n0, BNShl(d0, MantissaBits)) >= 0
        e1 == IF big THEN e0 + 1 ELSE e0
        d1 == IF big THEN BNShl(d0, 1) ELSE d0
        \* both scaled so that the divisor's top limb is full: same quotient
        s == LimbBits - NatBitLen(d1[Len(d1)])
        ds == BNShl(d1, s)
        qr == BNDivMod(BNShl(n0, s), ds)
        twice == BNShl(qr.r, 1)
        up == \/ BNCmp(twice, ds) > 0
              \/ BNCmp(twice, ds) = 0 /\ BNIsOdd(qr.q)
        q1 == IF up THEN BNAdd(qr.q, <<1>>) ELSE qr.q
    IN IF BNBitLen(q1) > MantissaBits
       THEN [m |-> BNShr(q1, 1), e |-> e1 + 1]
       ELSE [m |-> q1, e |-> e1]

\* int / int (true division) for n >= 0, d > 0
FDivInt(n, d) == IF n = 0 THEN FZero ELSE FDivPos(BNFromNat(n), BNFromNat(d))

\* int / float for n >= 0 and a positive float x
FDivIntFloat(n, x) ==
    IF n = 0 THEN FZero
    ELSE IF x.e <= 0 THEN FDivPos(BNShl(BNFromNat(n), -x.e), x.m)
    ELSE FDivPos(BNFromNat(n), BNShl(x.m, x.e))

\* math.floor of a non-negative float
FFloor(x) ==
    IF ~FIsPositive(x) THEN 0
    ELSE IF x.e >= 0 THEN BNToNat(BNShl(x.m, x.e))
    ELSE BNToNat(BNShr(x.m, -x.e))

(***************************************************************************)
(* Business rules / configuration                                          *)
(***************************************************************************)
THRESHOLDS_BY_TYPE ==
    [t \in {"fast-moving", "normal", "slow-moving"} |->
        CASE t = "fast-moving" -> 50
          [] t = "normal" -> 20
          [] t = "slow-moving" -> 5]

SALES_LOOKBACK_DAYS == 90
SALES_AVG_DAYS == 30
DefaultThreshold == 10

\* Bug: the fallback is the smallest configured threshold
GetThresholdForProduct_LowFallback(product) ==
    IF product.product_type \in DOMAIN THRESHOLDS_BY_TYPE
    THEN THRESHOLDS_BY_TYPE[product.product_type]
    ELSE THRESHOLDS_BY_TYPE["slow-moving"]

\* THRESHOLDS_BY_TYPE.get(product.product_type, 10)
GetThresholdForProduct(product) ==
    IF product.product_type \in DOMAIN THRESHOLDS_BY_TYPE
    THEN THRESHOLDS_BY_TYPE[product.product_type]
    ELSE DefaultThreshold

\* Bug: a sale exactly on the cutoff is left out
SalesSince_After(sales, since) == SelectSeq(sales, LAMBDA s : s.created_at > since)

\* [s for s in sales if s.created_at >= since]
SalesSince(sales, since) == SelectSeq(sales, LAMBDA s : s.created_at >= since)

\* sum(s.quantity for s in sales)
RECURSIVE SumQuantity(_)
SumQuantity(sales) ==
    IF sales = <<>> THEN 0 ELSE Head(sales).quantity + SumQuantity(Tail(sales))

ZeroDivisionError == [exception |-> "ZeroDivisionError"]

\* total / days in Python: a float, or the exception when days = 0
TrueDiv(total, days) == IF days = 0 THEN ZeroDivisionError ELSE FDivInt(total, days)

\* Bug: floor division, total_sold_in_window // SALES_AVG_DAYS
AvgDailySales_FloorDiv(total_sold_in_window, days) ==
    IF days > 0 THEN TrueDiv(total_sold_in_window \div days, 1) ELSE FZero

\* total_sold_in_window / SALES_AVG_DAYS if SALES_AVG_DAYS > 0 else 0
AvgDailySales(total_sold_in_window, days) ==
    IF days > 0 THEN TrueDiv(total_sold_in_window, days) ELSE FZero

\* The averaging of lines 147-149 for a sale history, a reference time and a window.
AverageDailyRate(sales, now, window_days) ==
    AvgDailySales(SumQuantity(SalesSince(sales, now - window_days)), window_days)

\* None, or floor(current_stock / avg_daily_sales) when avg_daily_sales > 0
DaysUntilStockout(current_stock, avg_daily_sales) ==
    IF FIsPositive(avg_daily_sales)
    THEN Some(FFloor(FDivIntFloat(current_stock, avg_daily_sales)))
    ELSE None

(***************************************************************************)
(* The database: the tables of the six models.  Rows of inventory and sale *)
(* are kept in storage (rowid) order.                                      *)
(***************************************************************************)
\* product.sales
ProductSales(d, product_id) == SelectSeq(d.sale, LAMBDA s : s.product_id = product_id)

\* Bug: the warehouses of every company
WarehouseIds_All(d, company_id) == DOMAIN d.warehouse

\* [w.id for w in company.warehouses]
WarehouseIds(d, company_id) ==
    {w \in DOMAIN d.warehouse : d.warehouse[w].company_id = Some(company_id)}

\* Inventory.query.filter(Inventory.warehouse_id.in_(warehouse_ids)).all()
FetchInventories(d, warehouse_ids) ==
    SelectSeq(d.inventory, LAMBDA inv : inv.warehouse_id \in warehouse_ids)

\* prod_inv_map.setdefault(inv.product_id, []).append(inv), on an insertion-ordered dict
SetDefaultAppend(map, inv) ==
    IF \E i \in 1..Len(map) : map[i].product_id = inv.product_id
    THEN LET i == CHOOSE j \in 1..Len(map) : map[j].product_id = inv.product_id
         IN [map EXCEPT ![i].inv_list = Append(@, inv)]
    ELSE Append(map, [product_id |-> inv.product_id, inv_list |-> <<inv>>])

RECURSIVE GroupByProduct(_, _)
GroupByProduct(map, inventories) ==
    IF inventories = <<>> THEN map
    ELSE GroupByProduct(SetDefaultAppend(map, Head(inventories)), Tail(inventories))

\* supplier_obj
SupplierObj(d, product) ==
    IF product.supplier_id = None THEN None
    ELSE LET supplier == d.supplier[product.supplier_id[1]]
         IN [id |-> product.supplier_id[1],
             name |-> supplier.name,
             contact_email |-> supplier.contact_email]

\* Bug: a row exactly at the threshold alerts too
BelowThreshold_AtMost(current_stock, threshold) == current_stock <= threshold

\* The strict comparison of line 153
BelowThreshold(current_stock, threshold) == current_stock < threshold

\* The dict appended to alerts for one inventory row
AlertRecord(d, product_id, inv, threshold, avg_daily_sales) ==
    [product_id |-> product_id,
     product_name |-> d.product[product_id].name,
     sku |-> d.product[product_id].sku,
     warehouse_id |-> inv.warehouse_id,
     warehouse_name |-> d.warehouse[inv.warehouse_id].name,
     current_stock |-> inv.quantity,
     threshold |-> threshold,
     days_until_stockout |-> DaysUntilStockout(inv.quantity, avg_daily_sales),
     supplier |-> SupplierObj(d, d.product[product_id])]

\* for inv in inv_list: ... alerts.append({...})
RECURSIVE InnerLoop(_, _, _, _, _, _)
InnerLoop(d, alerts, product_id, inv_list, threshold, avg_daily_sales) ==
    IF inv_list = <<>> THEN alerts
    ELSE LET inv == Head(inv_list)
             next == IF BelowThreshold(inv.quantity, threshold)
                     THEN Append(alerts, AlertRecord(d, product_id, inv, threshold,
                                                     avg_daily_sales))
                     ELSE alerts
         IN InnerLoop(d, next, product_id, Tail(inv_list), threshold, avg_daily_sales)

\* Bug: the average is taken over the lookback window
AvgSalesCutoff_Lookback(now) == now - SALES_LOOKBACK_DAYS

\* now - timedelta(days=SALES_LOOKBACK_DAYS), now - timedelta(days=SALES_AVG_DAYS)
LookbackCutoff(now) == now - SALES_LOOKBACK_DAYS
AvgSalesCutoff(now) == now - SALES_AVG_DAYS

\* One pass of the loop over prod_inv_map.items(): the locals after the pass.
LoopBody(d, f, entry) ==
    LET sales == ProductSales(d, entry.product_id)
        recent_sales == SalesSince(sales, f.lookback_cutoff)
        threshold == GetThresholdForProduct(d.product[entry.product_id])
        total == SumQuantity(SalesSince(sales, f.avg_sales_cutoff))
        avg == AvgDailySales(total, SALES_AVG_DAYS)
    IN IF recent_sales = <<>>
       THEN [f EXCEPT !.product_id = entry.product_id,
                      !.recent_sales = recent_sales,
                      !.next = @ + 1]
       ELSE [f EXCEPT !.product_id = entry.product_id,
                      !.recent_sales = recent_sales,
                      !.threshold = threshold,
                      !.total_sold_in_window = total,
                      !.avg_daily_sales = avg,
                      !.alerts = InnerLoop(d, @, entry.product_id, entry.inv_list,
                                           threshold, avg),
                      !.next = @ + 1]

\* The locals before anything is bound.  A local holds None until the line that
\* binds it has run; next is the position of the loop in prod_inv_map.
NoFrame ==
    [now |-> None, lookback_cutoff |-> None, avg_sales_cutoff |-> None,
     alerts |-> None, prod_inv_map |-> None, next |-> None,
     product_id |-> None, recent_sales |-> None, threshold |-> None,
     total_sold_in_window |-> None, avg_daily_sales |-> None]

\* now, the two cutoffs and the empty alerts list (lines 120-124)
EnterFrame(f, now) ==
    [f EXCEPT !.now = now,
              !.lookback_cutoff = LookbackCutoff(now),
              !.avg_sales_cutoff = AvgSalesCutoff(now),
              !.alerts = <<>>]

\* warehouse_ids, inventories and prod_inv_map (lines 128-134)
FetchFrame(d, f, company_id) ==
    [f EXCEPT !.prod_inv_map =
                  GroupByProduct(<<>>, FetchInventories(d, WarehouseIds(d, company_id))),
              !.next = 1]

\* jsonify({'alerts': alerts, 'total_alerts': len(alerts)}), 200
OkResponse(alerts) ==
    [status |-> 200, body |-> [alerts |-> alerts, total_alerts |-> Len(alerts)]]

\* Bug: a missing company gets an empty list
NotFound_EmptyList == OkResponse(<<>>)

\* jsonify({'error': 'Company not found'}), 404
NotFound == [status |-> 404, body |-> [error |-> "Company not found"]]

\* The loop over prod_inv_map.items() from position f.next to the end
RECURSIVE RunLoop(_, _)
RunLoop(d, f) ==
    IF f.next > Len(f.prod_inv_map) THEN f
    ELSE RunLoop(d, LoopBody(d, f, f.prod_inv_map[f.next]))

\* low_stock_alerts(company_id) run from its first line to its return at time now,
\* with nothing else running
RunAlone(d, company_id, now) ==
    IF company_id \notin DOMAIN d.company THEN NotFound
    ELSE OkResponse(RunLoop(d, FetchFrame(d, EnterFrame(NoFrame, now), company_id)).alerts)

(***************************************************************************)
(* State                                                                   *)
(***************************************************************************)
VARIABLES
    db,        \* the tables: company, warehouse, supplier, product, inventory, sale
    clock,     \* datetime.utcnow(), in days
    pc,        \* per request: "idle", "fetch", "loop" or "done"
    req,       \* per request: the company_id of the URL
    frame,     \* per request: the locals of low_stock_alerts
    response,  \* per request: the (body, status) returned
    call,      \* arguments of a direct call of the averaging
    ret        \* its result

vars == <<db, clock, pc, req, frame, response, call, ret>>

Procs == {1, 2}

(***************************************************************************)
(* Bounds and the snapshots explored                                       *)
(***************************************************************************)
MaxTicks == 1
MaxSales == 2
MaxRows == 2

Companies == [c \in {1, 2, 3} |->
    [name |-> CASE c = 1 -> "Acme Corp" [] c = 2 -> "Globex" [] c = 3 -> "Initech"]]
\* A company_id that is in no row of the company table
MissingCompany == Cardinality(DOMAIN Companies) + 1
CompanyIds == DOMAIN Companies \cup {MissingCompany}

\* Warehouses 1 and 2 belong to company 1, warehouse 3 to company 2, warehouse 4
\* to no company; company 3 has no warehouse.
Warehouses == [w \in 1..4 |->
    [name |-> CASE w = 1 -> "Main Warehouse" [] w = 2 -> "Overflow Warehouse"
                [] w = 3 -> "Globex Depot" [] w = 4 -> "Unassigned",
     company_id |-> CASE w \in {1, 2} -> Some(1) [] w = 3 -> Some(2) [] w = 4 -> None]]

Suppliers == [s \in {1} |->
    [name |-> "Supplier Corp", contact_email |-> "orders@supplier.com"]]

ProductTypes == {"fast-moving", "normal", "slow-moving", "seasonal", ""}

Products(type1) == [p \in {1, 2} |->
    IF p = 1
    THEN [name |-> "Widget A", sku |-> "WID-001", product_type |-> type1,
          supplier_id |-> Some(1)]
    ELSE [name |-> "Gizmo B", sku |-> "GIZ-002", product_type |-> "normal",
          supplier_id |-> None]]

Row(p, w, q) == [product_id |-> p, warehouse_id |-> w, quantity |-> q]
SaleOf(p, q, t) == [product_id |-> p, quantity |-> q, created_at |-> t]

\* Sequences of at most n distinct elements of S
RECURSIVE SeqsUpTo(_, _)
SeqsUpTo(S, n) ==
    IF n = 0 THEN {<<>>}
    ELSE LET shorter == SeqsUpTo(S, n - 1)
         IN shorter \cup
            {Append(q, x) : <<q, x>> \in
                {qx \in shorter \X S : /\ Len(qx[1]) = n - 1
                                         /\ \A i \in 1..Len(qx[1]) : qx[1][i] # qx[2]}}

\* Sales 5 days before the first request, and on the last day of each window
SaleDays == {-5, -SALES_AVG_DAYS, -SALES_LOOKBACK_DAYS}
SaleQuantities == {10, 23}
SaleCandidates == {SaleOf(p, q, t) : <<p, q, t>> \in {1, 2} \X SaleQuantities \X SaleDays}

\* Stock levels on both sides of every threshold
StockLevels == {0, 4, 5, 9, 10, 19, 20, 49, 50}
RowCandidates == {Row(p, w, q) : <<p, w, q>> \in {1, 2} \X (1..4) \X {0, 23}}

Database(type1, rows, sales) ==
    [company |-> Companies, warehouse |-> Warehouses, supplier |-> Suppliers,
     product |-> Products(type1), inventory |-> rows, sale |-> sales]

\* Sale histories vary, stock fixed
SalesSnapshots ==
    {Database("fast-moving", <<Row(1, 1, 23), Row(2, 1, 0), Row(1, 2, 50)>>, sales) :
        sales \in SeqsUpTo(SaleCandidates, MaxSales)}

\* Product types and stock levels vary, one recent sale
TypeSnapshots ==
    {Database(tq[1], <<Row(1, 1, tq[2]), Row(1, 2, tq[3])>>, <<SaleOf(1, 10, -5)>>) :
        tq \in ProductTypes \X StockLevels \X StockLevels}

\* Inventory tables vary over products, warehouses and companies, both products sell.
\* The table has no unique constraint: a product may have two rows in a warehouse.
RowSnapshots ==
    {Database("fast-moving", rows, <<SaleOf(1, 23, -5), SaleOf(2, 10, -5)>>) :
        rows \in SeqsUpTo(RowCandidates, MaxRows)}

Snapshots == SalesSnapshots \cup TypeSnapshots \cup RowSnapshots

\* For two requests at once: both companies stock both products, sale dates vary
SharedSnapshots ==
    {Database("fast-moving",
              <<Row(1, 1, 23), Row(2, 3, 5), Row(1, 2, 0), Row(2, 1, 5), Row(1, 3, 4)>>,
              <<SaleOf(1, 23, dd[1]), SaleOf(2, 10, dd[2])>>) :
        dd \in SaleDays \X SaleDays}

\* For the averaging alone: histories of one product, reference times, windows
Windows == {SALES_AVG_DAYS, SALES_LOOKBACK_DAYS, 1, 0, -1}
Calls ==
    [sales : SeqsUpTo({SaleOf(1, qt[1], qt[2]) : qt \in SaleQuantities \X SaleDays}, MaxSales),
     now : 0..MaxTicks,
     window_days : Windows]

(***************************************************************************)
(* Actions                                                                 *)
(***************************************************************************)
Init ==
    /\ db \in Snapshots
    /\ clock = 0
    /\ pc = [p \in Procs |-> "idle"]
    /\ req = [p \in Procs |-> None]
    /\ frame = [p \in Procs |-> NoFrame]
    /\ response = [p \in Procs |-> None]
    /\ call = None
    /\ ret = None

\* Time passes
Tick ==
    /\ clock < MaxTicks
    /\ clock' = clock + 1
    /\ UNCHANGED <<db, pc, req, frame, response, call, ret>>

\* Bug: alerts is a module-level list, so a request starts from what the other
\* request has appended so far
Enter_SharedAlerts(self, company_id) ==
    /\ pc[self] = "idle"
    /\ req' = [req EXCEPT ![self] = company_id]
    /\ IF company_id \notin DOMAIN db.company
       THEN /\ response' = [response EXCEPT ![self] = NotFound]
            /\ pc' = [pc EXCEPT ![self] = "done"]
            /\ UNCHANGED frame
       ELSE /\ frame' = [frame EXCEPT ![self] =
                            [EnterFrame(NoFrame, clock) EXCEPT
                                !.alerts = frame[CHOOSE q \in Procs : q # self].alerts]]
            /\ pc' = [pc EXCEPT ![self] = "fetch"]
            /\ UNCHANGED response
    /\ UNCHANGED <<db, clock, call, ret>>

\* GET /api/companies/<company_id>/alerts/low-stock: the lookup of the company,
\* the 404, and the first locals
Enter(self, company_id) ==
    /\ pc[self] = "idle"
    /\ req' = [req EXCEPT ![self] = company_id]
    /\ IF company_id \notin DOMAIN db.company
       THEN /\ response' = [response EXCEPT ![self] = NotFound]
            /\ pc' = [pc EXCEPT ![self] = "done"]
            /\ UNCHANGED frame
       ELSE /\ frame' = [frame EXCEPT ![self] = EnterFrame(NoFrame, clock)]
            /\ pc' = [pc EXCEPT ![self] = "fetch"]
            /\ UNCHANGED response
    /\ UNCHANGED <<db, clock, call, ret>>

RECURSIVE Reverse(_)
Reverse(q) == IF q = <<>> THEN <<>> ELSE Append(Reverse(Tail(q)), Head(q))

\* Bug: the rows come back in storage order or in the opposite order
Fetch_AnyOrder(self) ==
    /\ pc[self] = "fetch"
    /\ \E rows \in {FetchInventories(db, WarehouseIds(db, req[self])),
                     Reverse(FetchInventories(db, WarehouseIds(db, req[self])))} :
            frame' = [frame EXCEPT ![self] =
                        [@ EXCEPT !.prod_inv_map = GroupByProduct(<<>>, rows), !.next = 1]]
    /\ pc' = [pc EXCEPT ![self] = "loop"]
    /\ UNCHANGED <<db, clock, req, response, call, ret>>

\* The warehouses of the company, their inventory rows, grouped by product
Fetch(self) ==
    /\ pc[self] = "fetch"
    /\ frame' = [frame EXCEPT ![self] = FetchFrame(db, @, req[self])]
    /\ pc' = [pc EXCEPT ![self] = "loop"]
    /\ UNCHANGED <<db, clock, req, response, call, ret>>

\* One product of prod_inv_map: the gate, the threshold, the average, the rows
ProcessProduct(self) ==
    /\ pc[self] = "loop"
    /\ frame[self].next <= Len(frame[self].prod_inv_map)
    /\ frame' = [frame EXCEPT ![self] =
                    LoopBody(db, @, @.prod_inv_map[@.next])]
    /\ UNCHANGED <<db, clock, pc, req, response, call, ret>>

\* The response, once every product is done
Respond(self) ==
    /\ pc[self] = "loop"
    /\ frame[self].next > Len(frame[self].prod_inv_map)
    /\ response' = [response EXCEPT ![self] = OkResponse(frame[self].alerts)]
    /\ pc' = [pc EXCEPT ![self] = "done"]
    /\ UNCHANGED <<db, clock, req, frame, call, ret>>

Handler(self) ==
    \/ \E company_id \in CompanyIds : Enter(self, company_id)
    \/ Fetch(self)
    \/ ProcessProduct(self)
    \/ Respond(self)

\* One request at a time
Next == Tick \/ Handler(1)

Spec == Init /\ [][Next]_vars

\* Two requests, their steps interleaved in any order
InitShared ==
    /\ db \in SharedSnapshots
    /\ clock = 0
    /\ pc = [p \in Procs |-> "idle"]
    /\ req = [p \in Procs |-> None]
    /\ frame = [p \in Procs |-> NoFrame]
    /\ response = [p \in Procs |-> None]
    /\ call = None
    /\ ret = None

NextShared == Tick \/ \E self \in Procs : Handler(self)

SpecShared == InitShared /\ [][NextShared]_vars

\* The averaging applied to arguments of its own
InitRate ==
    /\ db = Database("normal", <<>>, <<>>)
    /\ clock = 0
    /\ pc = [p \in Procs |-> "idle"]
    /\ req = [p \in Procs |-> None]
    /\ frame = [p \in Procs |-> NoFrame]
    /\ response = [p \in Procs |-> None]
    /\ call \in Calls
    /\ ret = None

Average ==
    /\ call # None
    /\ ret = None
    /\ ret' = AverageDailyRate(call.sales, call.now, call.window_days)
    /\ UNCHANGED <<db, clock, pc, req, frame, response, call>>

SpecRate == InitRate /\ [][Average]_vars

(***************************************************************************)
(* Properties.  They are stated over the tables and the responses, with    *)
(* the windows and the sums recomputed over sets of rows rather than taken *)
(* from the locals of the handler.                                         *)
(***************************************************************************)
Done(p) == pc[p] = "done"
Ok(p) == Done(p) /\ response[p].status = 200
Alerts(p) == response[p].body.alerts

Owned(w, c) == db.warehouse[w].company_id = Some(c)
HasSaleSince(product_id, t) ==
    \E i \in 1..Len(db.sale) :
        db.sale[i].product_id = product_id /\ db.sale[i].created_at >= t

RECURSIVE SumAt(_, _)
SumAt(sales, S) ==
    IF S = {} THEN 0
    ELSE LET i == CHOOSE j \in S : TRUE
         IN sales[i].quantity + SumAt(sales, S \ {i})

\* Total quantity of the product sold at or after day t
SoldSince(product_id, t) ==
    SumAt(db.sale, {i \in 1..Len(db.sale) :
                        db.sale[i].product_id = product_id /\ db.sale[i].created_at >= t})

AlertsAt(p, product_id, warehouse_id) ==
    {k \in 1..Len(Alerts(p)) : /\ Alerts(p)[k].product_id = product_id
                               /\ Alerts(p)[k].warehouse_id = warehouse_id}

\* The request has run at least one pass of the loop, and its last pass passed the gate
PassedGate(p) ==
    /\ pc[p] \in {"loop", "done"}
    /\ req[p] \in DOMAIN db.company
    /\ frame[p].next > 1
    /\ frame[p].recent_sales # <<>>

\* C1: for every inventory row (P, W, q) in a warehouse of the company, the response
\* holds an alert for (P, W) with current_stock q if and only if P has a sale at or
\* after now - SALES_LOOKBACK_DAYS and q is strictly below the threshold of P's type.
C1_AlertIffRecentSaleAndBelowThreshold ==
    \A p \in Procs : Ok(p) =>
        \A i \in 1..Len(db.inventory) :
            LET row == db.inventory[i]
            IN Owned(row.warehouse_id, req[p]) =>
                ((\E k \in AlertsAt(p, row.product_id, row.warehouse_id) :
                        Alerts(p)[k].current_stock = row.quantity)
                 <=> /\ HasSaleSince(row.product_id, frame[p].now - SALES_LOOKBACK_DAYS)
                     /\ row.quantity < GetThresholdForProduct(db.product[row.product_id]))

\* A response with an alert for a product whose only recent sale lies exactly on the
\* lookback boundary, and no alert for an empty row of a product without recent sales
C1_Witness ==
    \E p \in Procs :
        /\ Ok(p)
        /\ \E k \in 1..Len(Alerts(p)) :
            /\ HasSaleSince(Alerts(p)[k].product_id, frame[p].now - SALES_LOOKBACK_DAYS)
            /\ ~HasSaleSince(Alerts(p)[k].product_id, frame[p].now - SALES_LOOKBACK_DAYS + 1)
        /\ \E i \in 1..Len(db.inventory) :
            /\ Owned(db.inventory[i].warehouse_id, req[p])
            /\ db.inventory[i].quantity = 0
            /\ ~HasSaleSince(db.inventory[i].product_id, frame[p].now - SALES_LOOKBACK_DAYS)
            /\ AlertsAt(p, db.inventory[i].product_id, db.inventory[i].warehouse_id) = {}

\* C2: in every alert, days_until_stockout is null if and only if nothing was sold in
\* the averaging window, and otherwise is floor(current_stock * SALES_AVG_DAYS / total
\* sold in the window), which is not negative.
C2_StockoutIsExactFloor ==
    \A p \in Procs : Ok(p) =>
        \A k \in 1..Len(Alerts(p)) :
            LET a == Alerts(p)[k]
                total == SoldSince(a.product_id, frame[p].now - SALES_AVG_DAYS)
            IN /\ a.days_until_stockout = None <=> total <= 0
               /\ total > 0 =>
                    /\ a.days_until_stockout = Some((a.current_stock * SALES_AVG_DAYS) \div total)
                    /\ a.days_until_stockout[1] >= 0

\* The float x is n / d rounded to 53 bits: x = m * 2^e with 2^52 <= m < 2^53 and
\* |m * 2^e - n / d| <= 2^e / 2, that is |2 * d * m - n * 2^(1 - e)| <= d  (e < 0)
IsNearestFloat(x, n, d) ==
    /\ DOMAIN x = {"m", "e"}
    /\ BNBitLen(x.m) = MantissaBits
    /\ x.e < 0
    /\ LET lhs == BNMulSmall(x.m, 2 * d)
           rhs == BNShl(BNFromNat(n), 1 - x.e)
           diff == IF BNCmp(lhs, rhs) >= 0 THEN BNSub(lhs, rhs) ELSE BNSub(rhs, lhs)
       IN BNCmp(diff, BNFromNat(d)) <= 0

\* C3: for every sale history in any order, the average daily rate is the sum of the
\* quantities sold at or after now - window_days divided by window_days (as a float);
\* it is exactly 0 when window_days <= 0 or no sale is in the window; no division by
\* zero happens.
C3_AverageDailyRate ==
    ret # None =>
        LET total == SumAt(call.sales,
                           {i \in 1..Len(call.sales) :
                                call.sales[i].created_at >= call.now - call.window_days})
        IN /\ ret # ZeroDivisionError
           /\ (call.window_days <= 0 \/ total = 0) => ret = FZero
           /\ (call.window_days > 0 /\ total > 0) =>
                IsNearestFloat(ret, total, call.window_days)

\* The average of two sales stored newest first, the older one on the window's boundary
C3_Witness ==
    /\ ret # None
    /\ call # None
    /\ Len(call.sales) = 2
    /\ call.sales[1].created_at > call.sales[2].created_at
    /\ call.sales[2].created_at = call.now - call.window_days
    /\ IsNearestFloat(ret, call.sales[1].quantity + call.sales[2].quantity, call.window_days)

\* C4: a request for a company that does not exist ends with the error 'Company not
\* found' and status 404 and no alert list; a request for an existing company ends
\* with {alerts, total_alerts}, status 200, total_alerts being the number of alerts.
C4_NotFoundOrStructuredResult ==
    \A p \in Procs : Done(p) =>
        IF req[p] \in DOMAIN db.company
        THEN /\ response[p].status = 200
             /\ DOMAIN response[p].body = {"alerts", "total_alerts"}
             /\ response[p].body.total_alerts = Len(response[p].body.alerts)
        ELSE /\ response[p].status = 404
             /\ response[p].body = [error |-> "Company not found"]

\* A request for the missing company has been answered
C4_Witness ==
    \E p \in Procs :
        /\ Done(p)
        /\ req[p] \notin DOMAIN db.company
        /\ response[p].status = 404
        /\ db.inventory # <<>>

\* Position in the inventory table of the row an alert was made from
RowOf(a) ==
    CHOOSE i \in 1..Len(db.inventory) :
        /\ db.inventory[i].product_id = a.product_id
        /\ db.inventory[i].warehouse_id = a.warehouse_id

\* Position of the first row of the product among the rows of the company
FirstRowOf(product_id, c) ==
    CHOOSE i \in 1..Len(db.inventory) :
        /\ db.inventory[i].product_id = product_id
        /\ Owned(db.inventory[i].warehouse_id, c)
        /\ \A j \in 1..(i - 1) :
            ~(db.inventory[j].product_id = product_id
              /\ Owned(db.inventory[j].warehouse_id, c))

\* C5: two requests for the same company at the same now, over the same data, get the
\* same response: the same alerts in the same order (products by their first fetched
\* row, then each product's rows as fetched) and the same total.
C5_SameRequestSameResponse ==
    /\ \A p, q \in Procs :
        (Done(p) /\ Done(q) /\ req[p] = req[q] /\ frame[p].now = frame[q].now)
            => response[p] = response[q]
    /\ \A p \in Procs : Ok(p) =>
        \A k, l \in 1..Len(Alerts(p)) : k < l =>
            LET a == Alerts(p)[k]
                b == Alerts(p)[l]
            IN IF a.product_id = b.product_id
               THEN RowOf(a) < RowOf(b)
               ELSE FirstRowOf(a.product_id, req[p]) < FirstRowOf(b.product_id, req[p])

\* Both requests were for company 1 at the same now, and each got three alerts, the
\* two of product 1 ahead of the one of product 2 although its rows are not adjacent
C5_Witness ==
    /\ Ok(1) /\ Ok(2)
    /\ req[1] = 1 /\ req[2] = 1
    /\ frame[1].now = frame[2].now
    /\ Len(Alerts(1)) = 3
    /\ Alerts(2)[1].product_id = 1 /\ Alerts(2)[2].product_id = 1
    /\ Alerts(2)[3].product_id = 2

\* C6: the threshold of a type that is a key of THRESHOLDS_BY_TYPE is the configured
\* one, every other type (the empty one too) gets one fallback that differs from every
\* configured threshold, and each alert reports the threshold of its product's type.
C6_ThresholdResolved ==
    /\ \A t \in ProductTypes \ DOMAIN THRESHOLDS_BY_TYPE :
        /\ GetThresholdForProduct([product_type |-> t]) = DefaultThreshold
        /\ \A k \in DOMAIN THRESHOLDS_BY_TYPE :
            GetThresholdForProduct([product_type |-> t]) # THRESHOLDS_BY_TYPE[k]
    /\ \A p \in Procs : Ok(p) =>
        \A k \in 1..Len(Alerts(p)) :
            LET t == db.product[Alerts(p)[k].product_id].product_type
            IN Alerts(p)[k].threshold =
                    CASE t = "fast-moving" -> 50
                      [] t = "normal" -> 20
                      [] t = "slow-moving" -> 5
                      [] OTHER -> 10

\* An alert of a product whose type is the empty string, reported with the fallback
C6_Witness ==
    \E p \in Procs :
        /\ Ok(p)
        /\ \E k \in 1..Len(Alerts(p)) :
            /\ db.product[Alerts(p)[k].product_id].product_type = ""
            /\ Alerts(p)[k].threshold = DefaultThreshold

\* C7: a product with a sale in the lookback window and none in the averaging window
\* gets an alert for each of its rows below the threshold in the company's warehouses,
\* and that alert has days_until_stockout = null.
C7_OldSalesGiveNullStockout ==
    \A p \in Procs : Ok(p) =>
        \A i \in 1..Len(db.inventory) :
            LET row == db.inventory[i]
            IN (/\ Owned(row.warehouse_id, req[p])
                /\ HasSaleSince(row.product_id, frame[p].now - SALES_LOOKBACK_DAYS)
                /\ ~HasSaleSince(row.product_id, frame[p].now - SALES_AVG_DAYS)
                /\ row.quantity < GetThresholdForProduct(db.product[row.product_id]))
               => /\ AlertsAt(p, row.product_id, row.warehouse_id) # {}
                  /\ \A k \in AlertsAt(p, row.product_id, row.warehouse_id) :
                        Alerts(p)[k].days_until_stockout = None

\* An alert with a null estimate for a product last sold between 31 and 90 days ago
C7_Witness ==
    \E p \in Procs :
        /\ Ok(p)
        /\ \E k \in 1..Len(Alerts(p)) :
            /\ Alerts(p)[k].days_until_stockout = None
            /\ HasSaleSince(Alerts(p)[k].product_id, frame[p].now - SALES_LOOKBACK_DAYS)
            /\ ~HasSaleSince(Alerts(p)[k].product_id, frame[p].now - SALES_AVG_DAYS)

C9_Independent ==
    /\ [][db' = db]_vars
    /\ [](\A p \in Procs : Done(p) =>
            response[p] = RunAlone(db, req[p], frame[p].now))

\* Request 1 has finished with alerts while request 2, for another company, is in its loop
C9_Witness ==
    /\ Ok(1)
    /\ Len(Alerts(1)) > 0
    /\ pc[2] = "loop"
    /\ req[2] # req[1]
    /\ frame[2].next = 2
    /\ Len(frame[2].alerts) > 0

\* C10: every alert for company C names a warehouse of C and an inventory row held
\* there, so rows in warehouses of other companies or of none give C no alert; a
\* company without warehouses gets no alert and total_alerts = 0.
C10_CompanyIsolation ==
    \A p \in Procs : Ok(p) =>
        /\ \A k \in 1..Len(Alerts(p)) :
            /\ Owned(Alerts(p)[k].warehouse_id, req[p])
            /\ \E i \in 1..Len(db.inventory) :
                /\ db.inventory[i].product_id = Alerts(p)[k].product_id
                /\ db.inventory[i].warehouse_id = Alerts(p)[k].warehouse_id
                /\ db.inventory[i].quantity = Alerts(p)[k].current_stock
        /\ (\A w \in DOMAIN db.warehouse : ~Owned(w, req[p])) =>
            /\ Alerts(p) = <<>>
            /\ response[p].body.total_alerts = 0

\* A response with exactly one alert, while the same product is also short in a
\* warehouse of another company or of none
C10_Witness ==
    \E p \in Procs :
        /\ Ok(p)
        /\ Len(Alerts(p)) = 1
        /\ \E i \in 1..Len(db.inventory) :
            /\ db.inventory[i].product_id = Alerts(p)[1].product_id
            /\ ~Owned(db.inventory[i].warehouse_id, req[p])
            /\ db.inventory[i].quantity < Alerts(p)[1].threshold

====
